---------------------------- MODULE Spec2Model ----------------------------
(***************************************************************************)
(* A model of the flight-booking dashboard script app.py: one cached load  *)
(* of the spreadsheet, the in-place normalisation of the loaded frame, the *)
(* year/month filter, the ticketed subset, the headline metrics and the    *)
(* groupby/sort/head aggregations of the four tabs.  One run of the script *)
(* (Streamlit reruns it top to bottom on every widget interaction) is one  *)
(* action.                                                                 *)
(*                                                                         *)
(* float64 values are fixed-point numbers counted in tenths, so that 2.7   *)
(* is 27 and the bin edge 5000 is 50000; NaN and +inf are separate kinds.  *)
(***************************************************************************)
EXTENDS Integers, Sequences, FiniteSets, TLC

VARIABLES
    source,           \* the remote spreadsheet behind file_url (environment)
    cache,            \* st.cache_data's memo of load_data(file_url)
    pc,               \* "start" | "shown" | "nodata" | "aborted"
    fail,             \* source line whose exception ended the last run, 0 if none
    messages,         \* st.error / st.warning / st.info messages on the page
    widgets,          \* the two sidebar multiselects have been rendered
    selected_years,   \* value of the "Select Years" multiselect
    selected_months,  \* value of the "Select Months" multiselect
    df,               \* the frame load_data returned, as normalised by the run
    filtered_df,
    ticketed_df,
    produced,         \* names of the metrics and charts the last run rendered
    metrics,          \* the six st.metric values
    charts            \* the aggregated tables handed to plotly

vars == <<source, cache, pc, fail, messages, widgets, selected_years,
          selected_months, df, filtered_df, ticketed_df, produced, metrics,
          charts>>

(***************************************************************************)
(* Bounds of the model.                                                    *)
(***************************************************************************)
MaxRows == 2

(***************************************************************************)
(* Sequences and sets.                                                     *)
(***************************************************************************)
Range(s) == {s[i] : i \in DOMAIN s}

RECURSIVE SumSeq(_)
SumSeq(s) == IF s = <<>> THEN 0 ELSE Head(s) + SumSeq(Tail(s))

SeqMap(s, Op(_)) == [i \in DOMAIN s |-> Op(s[i])]

\* Python's sorted() over a set of integers
RECURSIVE sorted(_, _)
sorted(S, reverse) ==
    IF S = {} THEN <<>>
    ELSE LET m == IF reverse
                  THEN CHOOSE x \in S : \A y \in S : y <= x
                  ELSE CHOOSE x \in S : \A y \in S : x <= y
         IN  <<m>> \o sorted(S \ {m}, reverse)

\* the first n entries: DataFrame.head(n) / Series.head(n)
head(s, n) == SubSeq(s, 1, IF Len(s) < n THEN Len(s) ELSE n)

(***************************************************************************)
(* float64 values: [k, v] with k the kind and v the value in tenths.       *)
(***************************************************************************)
Num(v) == [k |-> "num", v |-> v]
NaN == [k |-> "nan", v |-> 0]
Inf == [k |-> "inf", v |-> 0]

Whole(n) == Num(n * 10)

isna(x) == x.k = "nan"

\* x < y on floats; every comparison with NaN is false
FLess(x, y) ==
    /\ ~isna(x) /\ ~isna(y)
    /\ \/ x.k = "num" /\ y.k = "inf"
       \/ x.k = "num" /\ y.k = "num" /\ x.v < y.v

FLeq(x, y) == ~isna(x) /\ ~isna(y) /\ ~FLess(y, x)

FAdd(x, y) ==
    IF isna(x) \/ isna(y) THEN NaN
    ELSE IF x.k = "inf" \/ y.k = "inf" THEN Inf
    ELSE Num(x.v + y.v)

\* a sum that is NaN over an empty series (min_count=1)
RECURSIVE FSumNaN(_)
FSumNaN(s) ==
    IF s = <<>> THEN NaN
    ELSE IF Len(s) = 1 THEN (IF isna(Head(s)) THEN Num(0) ELSE Head(s))
    ELSE IF isna(Head(s)) THEN FSumNaN(Tail(s))
    ELSE FAdd(Head(s), FSumNaN(Tail(s)))

\* Series.sum(): skipna, 0 for an empty series
RECURSIVE FSum(_)
FSum(s) ==
    IF s = <<>> THEN Num(0)
    ELSE IF isna(Head(s)) THEN FSum(Tail(s))
    ELSE FAdd(Head(s), FSum(Tail(s)))

\* Series.max(): skipna, NaN for an empty series
FMax(s) ==
    LET vals == {s[i] : i \in DOMAIN s} \ {NaN}
    IN  IF vals = {} THEN NaN
        ELSE CHOOSE x \in vals : \A y \in vals : FLeq(y, x)

\* Series.mean(): skipna, NaN for an empty series; kept as sum over count
FMean(s) ==
    LET vals == SelectSeq(s, LAMBDA x : ~isna(x))
        tot == FSum(vals)
    IN  IF vals = <<>> THEN [k |-> "nan", v |-> 0, n |-> 0]
        ELSE [k |-> tot.k, v |-> tot.v, n |-> Len(vals)]

(***************************************************************************)
(* Spreadsheet cells as read_excel delivers them.  A numeric or text cell  *)
(* is [k, v, s]: a number (k = "num", v in tenths), a text (k = "str", s)  *)
(* or a blank (k = "nan").  A Date cell is [k, y, m]: an Excel datetime    *)
(* (k = "ts") with year y and month m, a text that is no date (k = "str")  *)
(* or a blank.  A Ticket Numbers cell is [k, chars], its text spelled as a *)
(* sequence of characters.                                                 *)
(***************************************************************************)
NumCell(v) == [k |-> "num", v |-> v, s |-> ""]
StrCell(s) == [k |-> "str", v |-> 0, s |-> s]
BlankCell == [k |-> "nan", v |-> 0, s |-> ""]
NACell == [k |-> "NA", v |-> 0, s |-> ""]

DateCell(y, m) == [k |-> "ts", y |-> y, m |-> m]
BadDateCell == [k |-> "str", y |-> 0, m |-> 0]
BlankDateCell == [k |-> "nan", y |-> 0, m |-> 0]
NaT == [k |-> "NaT", y |-> 0, m |-> 0]

TicketCell(chars) == [k |-> "str", chars |-> chars]
BlankTicketCell == [k |-> "nan", chars |-> <<>>]

\* the columns the script reads
RequiredColumns ==
    {"Date", "Ticket Numbers", "Payment Method", "From", "To", "Airport",
     "Type", "Total Price", "Commission", "No Passengers"}

(***************************************************************************)
(* load_data (lines 13-20): the parsed frame, or None after st.error.      *)
(***************************************************************************)
None == [none |-> TRUE, cols |-> {}, rows |-> <<>>]

Frame(cols, rows) == [none |-> FALSE, cols |-> cols, rows |-> rows]

\* load_data answering a failed fetch with an empty frame instead of None
load_data_empty(src) ==
    [value |-> Frame(src.cols, src.rows), error |-> ~src.ok]

load_data(src) ==
    IF src.ok
    THEN [value |-> Frame(src.cols, src.rows), error |-> FALSE]
    ELSE [value |-> None, error |-> TRUE]

(***************************************************************************)
(* Normalisation (lines 26-44).                                            *)
(***************************************************************************)
\* pd.to_datetime(errors="coerce"): a datetime stays, anything else is NaT
to_datetime(c) == IF c.k = "ts" THEN c ELSE NaT

\* Series.dt.strftime("%B")
MonthNames ==
    <<"January", "February", "March", "April", "May", "June", "July",
      "August", "September", "October", "November", "December">>

\* pd.to_datetime(x, format='%B').month (line 59)
MonthNumber(name) == CHOOSE i \in DOMAIN MonthNames : MonthNames[i] = name

numeric_cols == <<"Total Price", "Commission", "No Passengers">>

\* the strings line 39 replaces by pd.NA
NullSentinels == {"NaN", "nan", "NAN", "Null", "NULL", "", " "}

replace(c) == IF c.k = "str" /\ c.s \in NullSentinels THEN NACell ELSE c

\* the texts of the model that pd.to_numeric parses as numbers
NumericText ==
    ("4000" :> Num(40000)) @@ ("-3" :> Num(-30)) @@ ("2.7" :> Num(27)) @@
    ("inf" :> Inf)

\* pd.to_numeric(errors="coerce") of one cell
to_numeric(c) ==
    CASE c.k = "num" -> Num(c.v)
      [] c.k = "str" -> IF c.s \in DOMAIN NumericText THEN NumericText[c.s]
                        ELSE NaN
      [] OTHER -> NaN

fillna(x, value) == IF isna(x) THEN value ELSE x

\* whether astype(int) raises: a NaN or inf cannot be cast (IntCastingNaNError)
astype_int_raises(x) == x.k # "num"

\* astype(int) of a finite float: truncation toward zero
astype_int(x) == IF x.v >= 0 THEN x.v \div 10 ELSE -((-x.v) \div 10)


\* lines 27-33 on the loaded rows: parse Date, drop the NaT rows, add the facets
ParseDates(rows) ==
    LET parsed == SeqMap(rows, LAMBDA r : [r EXCEPT !["Date"] = to_datetime(@)])
        kept == SelectSeq(parsed, LAMBDA r : r["Date"].k # "NaT")
    IN  SeqMap(kept, LAMBDA r :
            r @@ ("Year" :> r["Date"].y) @@ ("Month" :> r["Date"].m)
              @@ ("Month_Name" :> MonthNames[r["Date"].m]))

\* lines 37-40 for one column, when the frame has it
ConvertColumn(cols, rows, col) ==
    IF col \in cols
    THEN SeqMap(rows, LAMBDA r : [r EXCEPT ![col] = to_numeric(replace(@))])
    ELSE rows

ConvertNumeric(cols, rows) ==
    ConvertColumn(cols,
        ConvertColumn(cols,
            ConvertColumn(cols, rows, numeric_cols[1]),
            numeric_cols[2]),
        numeric_cols[3])

\* line 44 raises when some No Passengers value is not finite
IntCastRaises(cols, rows) ==
    /\ "No Passengers" \in cols
    /\ \E i \in DOMAIN rows : astype_int_raises(fillna(rows[i]["No Passengers"], Num(0)))

\* lines 43-44
SafeInt(cols, rows) ==
    IF "No Passengers" \in cols
    THEN SeqMap(rows, LAMBDA r :
             [r EXCEPT !["No Passengers"] = astype_int(fillna(@, Num(0)))])
    ELSE rows

\* lines 26-44: the rows of df when the block ends or raises, and the line that
\* raised (27: KeyError 'Date'; 44: the integer cast), 0 when none did
Normalize(t) ==
    IF "Date" \notin t.cols THEN [fail |-> 27, rows |-> t.rows]
    ELSE LET converted == ConvertNumeric(t.cols, ParseDates(t.rows))
         IN  IF IntCastRaises(t.cols, converted)
             THEN [fail |-> 44, rows |-> converted]
             ELSE [fail |-> 0, rows |-> SafeInt(t.cols, converted)]

(***************************************************************************)
(* Sidebar and filter (lines 46-86).                                       *)
(***************************************************************************)
\* line 50
available_years(rows) == sorted({rows[i]["Year"] : i \in DOMAIN rows}, TRUE)

\* line 59: the month names present, in calendar order
available_months(rows) ==
    LET nums == sorted({MonthNumber(rows[i]["Month_Name"]) : i \in DOMAIN rows}, FALSE)
    IN  SeqMap(nums, LAMBDA n : MonthNames[n])

\* a filter under which an empty selection selects nothing
ApplyFilterStrict(rows, years, months) ==
    SelectSeq(rows, LAMBDA r : r["Year"] \in years /\ r["Month_Name"] \in months)

\* lines 68-73: an empty selection leaves the frame as it is
ApplyFilter(rows, years, months) ==
    LET byYear == IF years # {}
                  THEN SelectSeq(rows, LAMBDA r : r["Year"] \in years)
                  ELSE rows
    IN  IF months # {}
        THEN SelectSeq(byYear, LAMBDA r : r["Month_Name"] \in months)
        ELSE byYear

(***************************************************************************)
(* Ticketed subset (lines 88-92).                                          *)
(***************************************************************************)
UpperCase == <<"A", "B", "C", "D", "E", "F", "G", "H", "I", "J", "K", "L", "M",
               "N", "O", "P", "Q", "R", "S", "T", "U", "V", "W", "X", "Y", "Z">>
LowerCase == <<"a", "b", "c", "d", "e", "f", "g", "h", "i", "j", "k", "l", "m",
               "n", "o", "p", "q", "r", "s", "t", "u", "v", "w", "x", "y", "z">>

LowerChar(c) ==
    IF c \in Range(UpperCase)
    THEN LowerCase[CHOOSE i \in DOMAIN UpperCase : UpperCase[i] = c]
    ELSE c

\* str.lower()
lower(chars) == [i \in DOMAIN chars |-> LowerChar(chars[i])]

\* astype(str) of a Ticket Numbers cell: a blank cell reads "nan"
astype_str(c) == IF c.k = "nan" THEN <<"n", "a", "n">> ELSE c.chars

NoTickets == <<"n", "o", " ", "t", "i", "c", "k", "e", "t", "s">>

\* line 89 without str.lower()
HasTicketCaseSensitive(r) == astype_str(r["Ticket Numbers"]) # NoTickets

\* line 89
HasTicket(r) == lower(astype_str(r["Ticket Numbers"])) # NoTickets

\* line 92: dropna(subset=["Total Price", "Commission"])
HasPriceAndCommission(r) == ~isna(r["Total Price"]) /\ ~isna(r["Commission"])

Ticketed(rows) ==
    SelectSeq(SelectSeq(rows, HasTicket), HasPriceAndCommission)

\* line 114: From + ' -> ' + To (the script's separator is an arrow character);
\* the concatenation is kept as the triple of its parts
AddRoute(rows) ==
    SeqMap(rows, LAMBDA r : r @@ ("Route" :> <<r["From"], " -> ", r["To"]>>))


(***************************************************************************)
(* Aggregation primitives.                                                 *)
(***************************************************************************)
\* the key strings of the model in Python's str order, which groupby(sort=True)
\* follows
KeyOrder ==
    <<"ADD", "BJR", "CBE", "DIR", "DXB", "Domestic", "International", "NBO",
      "Telebirr">>

\* the routes over these keys in the same order
RouteOrder ==
    LET n == Len(KeyOrder)
    IN  [i \in 1..(n * n) |->
            <<KeyOrder[((i - 1) \div n) + 1], " -> ", KeyOrder[((i - 1) % n) + 1]>>]

Column(rows, col) == [i \in DOMAIN rows |-> rows[i][col]]

\* the distinct group keys of a frame, sorted
GroupKeys(rows, by) ==
    SelectSeq(IF by = "Route" THEN RouteOrder ELSE KeyOrder,
              LAMBDA key : \E i \in DOMAIN rows : rows[i][by] = key)

\* 'sum' of one column: No Passengers is int64, the money columns float64
ColSum(rows, col) ==
    IF col = "No Passengers" THEN SumSeq(Column(rows, col))
    ELSE FSum(Column(rows, col))

\* groupby(by)[cols].sum().reset_index(): one row per key, keys ascending
groupby_sum(rows, by, cols) ==
    SeqMap(GroupKeys(rows, by), LAMBDA key :
        (by :> key) @@
        [c \in cols |-> ColSum(SelectSeq(rows, LAMBDA r : r[by] = key), c)])

\* the distinct values of a column in order of first appearance
RECURSIVE Unique(_)
Unique(s) ==
    IF s = <<>> THEN <<>>
    ELSE LET rest == Unique(SubSeq(s, 1, Len(s) - 1))
             last == s[Len(s)]
         IN  IF last \in Range(rest) THEN rest ELSE Append(rest, last)

\* the number of rows per value of a column, values in order of first appearance
Counts(rows, col, countName) ==
    SeqMap(Unique(Column(rows, col)), LAMBDA key :
        (col :> key) @@
        (countName :> Len(SelectSeq(rows, LAMBDA r : r[col] = key))))

\* the value rows are compared by: a float64 sum, or an int64 count
SortKey(r, by) ==
    IF by \in {"Count", "Number of Bookings"} THEN Whole(r[by]) ELSE r[by]

\* sort_values(ascending=False) with the default kind="quicksort", which is not
\* stable: every arrangement of the rows in non-increasing order of the key is
\* a possible result
sort_values(tbl, by) ==
    LET n == Len(tbl)
        ordered(p) ==
            \A i, j \in 1..n : i < j => FLeq(SortKey(tbl[p[j]], by), SortKey(tbl[p[i]], by))
    IN  {[i \in 1..n |-> tbl[p[i]]] : p \in {q \in Permutations(1..n) : ordered(q)}}

(***************************************************************************)
(* Price-range histogram (lines 204-217).                                  *)
(***************************************************************************)
bins ==
    <<Whole(0), Whole(5000), Whole(10000), Whole(15000), Whole(20000),
      Whole(30000), Whole(40000), Whole(60000), Whole(100000), Inf>>

labels ==
    <<"0-5K", "5K-10K", "10K-15K", "15K-20K", "20K-30K", "30K-40K", "40K-60K",
      "60K-100K", "100K+">>

\* pd.cut(x, bins, right=False): the index of the bin [bins[i], bins[i+1]) that
\* holds x, found as searchsorted(side="right"); 0 stands for the missing
\* category of a value outside every bin
cut(x) ==
    LET ids == Cardinality({i \in DOMAIN bins : FLeq(bins[i], x)})
    IN  IF isna(x) \/ ids = 0 \/ ids = Len(bins) THEN 0 ELSE ids

\* groupby("Fixed Price Range") over a categorical keeps every category
\* (observed=False): one row per label, in bin order
range_counts(rows) ==
    [b \in DOMAIN labels |->
        LET members == SelectSeq(rows, LAMBDA r : cut(r["Total Price"]) = b)
        IN  [Fixed_Price_Range |-> labels[b],
             Ticket_Count |-> Len(members),
             Total_Commission |-> FSum(Column(members, "Commission")),
             Avg_Ticket_Price |-> FMean(Column(members, "Total Price"))]]

(***************************************************************************)
(* Number formats of the metrics (lines 99-107): the value a metric shows, *)
(* [k, v] with v the integer printed, or the text nan / inf.               *)
(***************************************************************************)
\* p/q rounded to the nearest integer, halves to even
RoundHalfEven(p, q) ==
    LET f == p \div q
        r == p % q
    IN  IF 2 * r < q THEN f
        ELSE IF 2 * r > q THEN f + 1
        ELSE IF f % 2 = 0 THEN f ELSE f + 1

\* f"{n:,}"
FormatInt(n) == [k |-> "num", v |-> n]

\* f"{x:,.0f}"
Format0f(x) == IF x.k = "num" THEN [k |-> "num", v |-> RoundHalfEven(x.v, 10)]
               ELSE [k |-> x.k, v |-> 0]

\* f"{mean:,.0f}"
FormatMean(m) == IF m.k = "num" THEN [k |-> "num", v |-> RoundHalfEven(m.v, 10 * m.n)]
                 ELSE [k |-> m.k, v |-> 0]


(***************************************************************************)
(* One run of the script (lines 22-347).                                   *)
(***************************************************************************)
\* the source line that computes each metric or chart (the line of its first
\* column access)
OutputLine ==
    [Total_Bookings |-> 99, Total_Ticketed_Passengers |-> 100,
     Max_Ticket_Price |-> 101, Total_Commission |-> 105, Total_Sales |-> 106,
     Avg_Ticket_Price |-> 107, fig_type |-> 121, top_dests |-> 130,
     top_routes_commission |-> 152, type_commission |-> 182,
     range_counts |-> 210, bank_df |-> 240, payment_counts |-> 258,
     airport_commission |-> 278, airport_sales |-> 299,
     airport_bookings |-> 320]

MetricNames ==
    {"Total_Bookings", "Total_Ticketed_Passengers", "Max_Ticket_Price",
     "Total_Commission", "Total_Sales", "Avg_Ticket_Price"}

ChartNames == DOMAIN OutputLine \ MetricNames

\* the first line of the run that raises, 0 when the run reaches the end:
\* a column the frame lacks is a KeyError (a ValueError inside px.pie) where the
\* script first reads it without a guard
FailLine(cols, normFail) ==
    IF normFail # 0 THEN normFail
    ELSE IF "Ticket Numbers" \notin cols THEN 89
    ELSE IF ~({"Total Price", "Commission"} \subseteq cols) THEN 92
    ELSE IF "No Passengers" \notin cols THEN 100
    ELSE IF ~({"From", "To"} \subseteq cols) THEN 114
    ELSE IF "Type" \notin cols THEN 121
    ELSE IF "Payment Method" \notin cols THEN 240
    ELSE IF "Airport" \notin cols THEN 278
    ELSE 0

\* whether the run gets past the given line
Reaches(failLine, line) == failLine = 0 \/ line < failLine

NotShown == [k |-> "none", v |-> 0]

\* a filter that narrows df itself (df = df[...]) instead of a copy
FilterStepInPlace(rows, years, months) ==
    [df |-> ApplyFilter(rows, years, months),
     filtered_df |-> ApplyFilter(rows, years, months)]

\* lines 67-73: filtered_df is a copy of df narrowed by the selection; df itself
\* is left as it is
FilterStep(rows, years, months) ==
    [df |-> rows, filtered_df |-> ApplyFilter(rows, years, months)]

\* lines 99-107 over the frames a run got to
Metrics(made, filtered, ticketed) ==
    LET show(o, value) == IF o \in made THEN value ELSE NotShown
    IN  [Total_Bookings |-> show("Total_Bookings", FormatInt(Len(filtered))),
         Total_Ticketed_Passengers |->
             show("Total_Ticketed_Passengers",
                  FormatInt(ColSum(ticketed, "No Passengers"))),
         Max_Ticket_Price |->
             show("Max_Ticket_Price", Format0f(FMax(Column(ticketed, "Total Price")))),
         Total_Commission |->
             show("Total_Commission", Format0f(ColSum(ticketed, "Commission"))),
         Total_Sales |->
             show("Total_Sales", Format0f(ColSum(ticketed, "Total Price"))),
         Avg_Ticket_Price |->
             show("Avg_Ticket_Price",
                  FormatMean(FMean(Column(ticketed, "Total Price"))))]

\* the grouped tables of the four tabs before their sort_values and head
Grouped(made, ticketed) ==
    LET table(o, value) == IF o \in made THEN value ELSE <<>>
    IN  [fig_type |-> table("fig_type", Counts(ticketed, "Type", "count")),
         top_dests |-> table("top_dests", groupby_sum(ticketed, "To", {"Total Price"})),
         top_routes_commission |->
             table("top_routes_commission",
                   groupby_sum(ticketed, "Route",
                               {"Commission", "Total Price", "No Passengers"})),
         type_commission |->
             table("type_commission", groupby_sum(ticketed, "Type", {"Commission"})),
         range_counts |-> table("range_counts", range_counts(ticketed)),
         bank_df |->
             table("bank_df", groupby_sum(ticketed, "Payment Method", {"Commission"})),
         payment_counts |->
             table("payment_counts", Counts(ticketed, "Payment Method", "Count")),
         airport_commission |->
             table("airport_commission", groupby_sum(ticketed, "Airport", {"Commission"})),
         airport_sales |->
             table("airport_sales", groupby_sum(ticketed, "Airport", {"Total Price"})),
         airport_bookings |->
             table("airport_bookings",
                   Counts(ticketed, "Airport", "Number of Bookings"))]

\* the run over a loaded frame (lines 25-336).  first is the run that renders
\* the multiselects with their defaults (every year and month selected); a
\* later run reads the user's selection ys, ms.  A step the run does not get
\* to leaves its frame empty and its metric or chart unrendered.
RunLoaded(frame, first, ys, ms) ==
    \E norm \in {Normalize(frame)} :
    \E fl \in {FailLine(frame.cols, norm.fail)} :
    \E sidebar \in {Reaches(fl, 47)} :
    \E years \in {IF ~sidebar THEN {}
                  ELSE IF first THEN Range(available_years(norm.rows)) ELSE ys} :
    \E months \in {IF ~sidebar THEN {}
                   ELSE IF first THEN Range(available_months(norm.rows)) ELSE ms} :
    \E step \in {IF sidebar THEN FilterStep(norm.rows, years, months)
                 ELSE [df |-> norm.rows, filtered_df |-> <<>>]} :
    \E kept \in {IF Reaches(fl, 92) THEN Ticketed(step.filtered_df) ELSE <<>>} :
    \E ticketed \in {IF Reaches(fl, 114) THEN AddRoute(kept) ELSE kept} :
    \E made \in {{o \in DOMAIN OutputLine : Reaches(fl, OutputLine[o])}} :
    \E g \in {Grouped(made, ticketed)} :
    \E dests \in sort_values(g.top_dests, "Total Price"),
       routes \in sort_values(g.top_routes_commission, "Commission"),
       types \in sort_values(g.type_commission, "Commission"),
       banks \in sort_values(g.bank_df, "Commission"),
       pays \in sort_values(g.payment_counts, "Count"),
       acomm \in sort_values(g.airport_commission, "Commission"),
       asales \in sort_values(g.airport_sales, "Total Price"),
       abook \in sort_values(g.airport_bookings, "Number of Bookings") :
        /\ pc' = IF fl = 0 THEN "shown" ELSE "aborted"
        /\ fail' = fl
        /\ messages' =
               (IF fl # 0 THEN {"exception"} ELSE {}) \cup
               (IF years # {} THEN {"years"} ELSE {}) \cup
               (IF months # {} THEN {"months"} ELSE {}) \cup
               (IF step.filtered_df # <<>> THEN {"date_range"} ELSE {})
        /\ widgets' = sidebar
        /\ selected_years' = years
        /\ selected_months' = months
        /\ df' = Frame(IF norm.fail = 27 THEN frame.cols
                       ELSE frame.cols \cup {"Year", "Month", "Month_Name"},
                       step.df)
        /\ filtered_df' = step.filtered_df
        /\ ticketed_df' = ticketed
        /\ produced' = made
        /\ metrics' = Metrics(made, step.filtered_df, ticketed)
        /\ charts' =
               [fig_type |-> g.fig_type,
                top_dests |-> head(dests, 10),
                top_routes_commission |-> head(routes, 15),
                type_commission |-> types,
                range_counts |-> g.range_counts,
                bank_df |-> head(banks, 10),
                payment_counts |-> pays,
                airport_commission |-> head(acomm, 10),
                airport_sales |-> head(asales, 10),
                airport_bookings |-> head(abook, 15)]

NoCharts == [c \in ChartNames |-> <<>>]
NoMetrics == [m \in MetricNames |-> NotShown]

\* the else branch (lines 338-347): load_data returned None, after st.error if
\* it caught an exception
RunNoData(reported) ==
    /\ pc' = "nodata"
    /\ fail' = 0
    /\ messages' = (IF reported THEN {"error"} ELSE {}) \cup {"warning", "info"}
    /\ widgets' = FALSE
    /\ selected_years' = {}
    /\ selected_months' = {}
    /\ df' = None
    /\ filtered_df' = <<>>
    /\ ticketed_df' = <<>>
    /\ produced' = {}
    /\ metrics' = NoMetrics
    /\ charts' = NoCharts

\* the first run of the script: load_data fetches and parses, the result is
\* memoised
FirstRun ==
    /\ pc = "start"
    /\ LET result == load_data(source)
       IN  /\ cache' = [filled |-> TRUE, value |-> result.value]
           /\ IF result.value.none THEN RunNoData(result.error)
              ELSE RunLoaded(result.value, TRUE, {}, {})
    /\ UNCHANGED source

\* the user changes the multiselects (their options are the years and months of
\* df): the script runs again, load_data answers from the memo with a fresh
\* copy of the frame
Rerun ==
    /\ widgets
    /\ cache.filled
    /\ \E ys \in SUBSET Range(available_years(df.rows)),
          ms \in SUBSET Range(available_months(df.rows)) :
           RunLoaded(cache.value, FALSE, ys, ms)
    /\ UNCHANGED <<source, cache>>

Next == FirstRun \/ Rerun

(***************************************************************************)
(* The spreadsheets the model is run on.                                   *)
(***************************************************************************)
Row(date, ticket, price, commission, passengers, to, airport) ==
    ("Date" :> date) @@ ("Ticket Numbers" :> ticket) @@
    ("Payment Method" :> "CBE") @@ ("From" :> "ADD") @@ ("To" :> to) @@
    ("Airport" :> airport) @@ ("Type" :> "International") @@
    ("Total Price" :> price) @@ ("Commission" :> commission) @@
    ("No Passengers" :> passengers)

Abc123 == TicketCell(<<"A", "B", "C", "1", "2", "3">>)
NoTicketsMixed == TicketCell(<<"N", "o", " ", "T", "i", "c", "k", "e", "t", "s">>)
NoTicketsUpper == TicketCell(<<"N", "O", " ", "T", "I", "C", "K", "E", "T", "S">>)
NoTicket == TicketCell(<<"n", "o", " ", "t", "i", "c", "k", "e", "t">>)

Tables(rowSet) == UNION {[1..n -> rowSet] : n \in 0..MaxRows}

Unreachable == [ok |-> FALSE, cols |-> {}, rows |-> <<>>]

Sources(colSets, rowSet) ==
    {[ok |-> TRUE, cols |-> c, rows |-> t] : c \in colSets, t \in Tables(rowSet)}
    \cup {Unreachable}

InitWith(sources) ==
    /\ source \in sources
    /\ cache = [filled |-> FALSE, value |-> None]
    /\ pc = "start"
    /\ fail = 0
    /\ messages = {}
    /\ widgets = FALSE
    /\ selected_years = {}
    /\ selected_months = {}
    /\ df = None
    /\ filtered_df = <<>>
    /\ ticketed_df = <<>>
    /\ produced = {}
    /\ metrics = NoMetrics
    /\ charts = NoCharts

\* bookings of three months of two years, ticketed or not, priced or not
RowsMain ==
    {Row(DateCell(d[1], d[2]), t, p, NumCell(2000), NumCell(20), "DXB", "ADD") :
        d \in {<<2023, 1>>, <<2024, 1>>, <<2024, 2>>},
        t \in {Abc123, NoTicketsMixed},
        p \in {NumCell(40000), StrCell("NaN")}}

Init == InitWith(Sources({RequiredColumns}, RowsMain))

Spec == Init /\ [][Next]_vars

\* dates that parse or not, passenger and price cells of every kind
RowsNorm ==
    {Row(d, Abc123, p, NumCell(2000), x, "DXB", "ADD") :
        d \in {DateCell(2024, 12), BadDateCell, BlankDateCell},
        p \in {NumCell(40000), StrCell("Null"), StrCell("n/a")},
        x \in {NumCell(20), NumCell(27), NumCell(-30), StrCell("2.7"),
               StrCell(" "), StrCell("two"), StrCell("inf"), BlankCell}}

InitNorm == InitWith(Sources({RequiredColumns}, RowsNorm))

SpecNorm == InitNorm /\ [][Next]_vars

\* ticket texts in every case, null prices and commissions
RowsTicket ==
    {Row(DateCell(2024, 1), t, p, c, NumCell(10), "DXB", "ADD") :
        t \in {Abc123, NoTicketsMixed, NoTicketsUpper, NoTicket, BlankTicketCell},
        p \in {NumCell(40000), StrCell("NaN")},
        c \in {NumCell(2000), BlankCell}} \
    {Row(DateCell(2024, 1), t, StrCell("NaN"), BlankCell, NumCell(10), "DXB", "ADD") :
        t \in {Abc123, NoTicketsMixed, NoTicketsUpper, NoTicket, BlankTicketCell}}

InitTicket == InitWith(Sources({RequiredColumns}, RowsTicket))

SpecTicket == InitTicket /\ [][Next]_vars

\* prices on, beside and outside the bin edges
RowsHist ==
    {Row(DateCell(2024, 1), Abc123, p, NumCell(2000), NumCell(10), "DXB", "ADD") :
        p \in {NumCell(-10), NumCell(0), NumCell(49999), NumCell(50000),
               NumCell(1000000), StrCell("inf")}}

InitHist == InitWith(Sources({RequiredColumns}, RowsHist))

SpecHist == InitHist /\ [][Next]_vars

\* several airports and destinations with equal and unequal commissions
RowsTop ==
    {Row(DateCell(2024, 1), Abc123, NumCell(40000), c, NumCell(10), to, a) :
        c \in {NumCell(1000), NumCell(2000)},
        to \in {"DXB", "NBO"},
        a \in {"ADD", "BJR"}}

InitTop == InitWith(Sources({RequiredColumns}, RowsTop))

SpecTop == InitTop /\ [][Next]_vars

\* spreadsheets that lack one required column
RowsCols ==
    {Row(DateCell(2024, m), t, NumCell(40000), NumCell(2000), NumCell(10), "DXB", "ADD") :
        m \in {1, 2}, t \in {Abc123, NoTicketsMixed}}

InitCols ==
    InitWith(Sources({RequiredColumns} \cup {RequiredColumns \ {c} : c \in RequiredColumns},
                     RowsCols))

SpecCols == InitCols /\ [][Next]_vars


(***************************************************************************)
(* Properties.                                                             *)
(***************************************************************************)
\* a run over a loaded frame has ended
Ran == pc \in {"shown", "aborted"}

\* the row as it was before line 114 added Route
WithoutRoute(r) == [c \in DOMAIN r \ {"Route"} |-> r[c]]

\* the rule of section 4.3: an empty selection does not restrict its facet
InSelection(r, years, months) ==
    /\ years = {} \/ r["Year"] \in years
    /\ months = {} \/ r["Month_Name"] \in months

\* two texts that differ at most in the case of their letters
EqualsIgnoringCase(a, b) ==
    /\ Len(a) = Len(b)
    /\ \A i \in DOMAIN a :
           \/ a[i] = b[i]
           \/ \E j \in DOMAIN UpperCase : {a[i], b[i]} = {UpperCase[j], LowerCase[j]}

IsNoTickets(r) ==
    /\ r["Ticket Numbers"].k = "str"
    /\ EqualsIgnoringCase(r["Ticket Numbers"].chars, NoTickets)

Excluded(r) ==
    IsNoTickets(r) \/ isna(r["Total Price"]) \/ isna(r["Commission"])

TicketCounts == [b \in DOMAIN charts.range_counts |-> charts.range_counts[b].Ticket_Count]

\* x lies in the b-th bin [bins[b], bins[b+1])
InBin(x, b) == FLeq(bins[b], x) /\ FLess(x, bins[b + 1])

\* C1: the Ticket_Count values of the price-range histogram sum to the number
\* of rows of the ticketed subset, whatever the prices are, and each bin counts
\* the rows whose price lies between its lower bound (inclusive) and its upper
\* bound (exclusive).
C1_HistogramCountsEveryRow ==
    "range_counts" \in produced =>
        /\ Len(charts.range_counts) = Len(labels)
        /\ \A b \in DOMAIN charts.range_counts :
               charts.range_counts[b].Ticket_Count =
                   Cardinality({i \in DOMAIN ticketed_df :
                                    InBin(ticketed_df[i]["Total Price"], b)})
        /\ SumSeq(TicketCounts) = Len(ticketed_df)

\* C2: after normalisation the No Passengers value of every row is an integer
\* >= 0, never null, for every raw cell (so the cast of line 44 never raises).
C2_PassengersNonNegative ==
    (source.ok /\ pc # "start") =>
        /\ fail # 44
        /\ \A i \in DOMAIN df.rows : df.rows[i]["No Passengers"] \in Nat

\* C3: the ticketed subset is the filtered subset without the rows whose Ticket
\* Numbers equals "no tickets" in any case and without the rows whose Total
\* Price or Commission is null: it holds every other filtered row, only
\* filtered rows, and the filtered rows are rows of the normalised table.
C3_TicketedSubset ==
    pc = "shown" =>
        /\ SeqMap(ticketed_df, WithoutRoute) =
               SelectSeq(filtered_df, LAMBDA r : ~Excluded(r))
        /\ \A i \in DOMAIN ticketed_df :
               /\ ~IsNoTickets(ticketed_df[i])
               /\ ~isna(ticketed_df[i]["Total Price"])
               /\ ~isna(ticketed_df[i]["Commission"])
               /\ WithoutRoute(ticketed_df[i]) \in Range(filtered_df)
        /\ Range(filtered_df) \subseteq Range(df.rows)
        /\ Len(ticketed_df) <= Len(filtered_df)
        /\ Len(filtered_df) <= Len(df.rows)

\* a sentinel row in capitals and a row without commission are both left out
C3_Witness ==
    /\ pc = "shown"
    /\ Len(filtered_df) = 2
    /\ ticketed_df = <<>>
    /\ filtered_df[1]["Ticket Numbers"] = NoTicketsUpper
    /\ filtered_df[2]["Ticket Numbers"] = Abc123
    /\ isna(filtered_df[2]["Commission"])

\* C4: the filtered subset is exactly the rows of the base table whose Year is
\* selected (or no year is selected) and whose Month_Name is selected (or no
\* month is selected); with nothing selected it is the whole base table.
C4_FilterExact ==
    widgets =>
        /\ filtered_df =
               SelectSeq(df.rows,
                         LAMBDA r : InSelection(r, selected_years, selected_months))
        /\ (selected_years = {} /\ selected_months = {}) => filtered_df = df.rows

\* no year selected, a month selected that one of two rows is in
C4_Witness ==
    /\ widgets
    /\ selected_years = {}
    /\ selected_months # {}
    /\ Len(df.rows) = 2
    /\ Len(filtered_df) = 1


\* the place of a key in the input of a sort: groupby hands over its groups in
\* ascending key order, value_counts in order of first appearance
ByCommission(r) == SortKey(r, "Commission")
ByTotalPrice(r) == SortKey(r, "Total Price")
ByBookings(r) == SortKey(r, "Number of Bookings")

GroupPos(key) == CHOOSE i \in DOMAIN KeyOrder : KeyOrder[i] = key
RoutePos(key) == CHOOSE i \in DOMAIN RouteOrder : RouteOrder[i] = key
AirportFirstSeen(key) ==
    CHOOSE i \in DOMAIN ticketed_df :
        /\ ticketed_df[i]["Airport"] = key
        /\ \A j \in 1..(i - 1) : ticketed_df[j]["Airport"] # key

\* the metric of one group, summed over the ticketed subset
GroupTotal(by, key, col) ==
    FSum(Column(SelectSeq(ticketed_df, LAMBDA r : r[by] = key), col))
GroupSize(by, key) ==
    Whole(Len(SelectSeq(ticketed_df, LAMBDA r : r[by] = key)))

\* a top-n table: at most n rows, in non-increasing order of the metric, no
\* group left out above a group kept
TopNRanked(chart, n, by, Metric(_), Total(_)) ==
    /\ Len(chart) <= n
    /\ \A i, j \in DOMAIN chart : i < j => FLeq(Metric(chart[j]), Metric(chart[i]))
    /\ \A i \in DOMAIN chart : Metric(chart[i]) = Total(chart[i][by])
    /\ \A key \in {ticketed_df[i][by] : i \in DOMAIN ticketed_df} \
                  {chart[i][by] : i \in DOMAIN chart} :
           \A i \in DOMAIN chart : FLeq(Total(key), Metric(chart[i]))

\* groups with equal metric stand in the order they had in the input of the sort
TiesInInputOrder(chart, by, Metric(_), Pos(_)) ==
    \A i, j \in DOMAIN chart :
        (i < j /\ Metric(chart[i]) = Metric(chart[j])) =>
            Pos(chart[i][by]) < Pos(chart[j][by])

C5_Ranked ==
    pc = "shown" =>
        /\ TopNRanked(charts.top_dests, 10, "To", ByTotalPrice,
                      LAMBDA key : GroupTotal("To", key, "Total Price"))
        /\ TopNRanked(charts.top_routes_commission, 15, "Route", ByCommission,
                      LAMBDA key : GroupTotal("Route", key, "Commission"))
        /\ TopNRanked(charts.bank_df, 10, "Payment Method", ByCommission,
                      LAMBDA key : GroupTotal("Payment Method", key, "Commission"))
        /\ TopNRanked(charts.airport_commission, 10, "Airport", ByCommission,
                      LAMBDA key : GroupTotal("Airport", key, "Commission"))
        /\ TopNRanked(charts.airport_sales, 10, "Airport", ByTotalPrice,
                      LAMBDA key : GroupTotal("Airport", key, "Total Price"))
        /\ TopNRanked(charts.airport_bookings, 15, "Airport", ByBookings,
                      LAMBDA key : GroupSize("Airport", key))

C5_Ties ==
    pc = "shown" =>
        /\ TiesInInputOrder(charts.top_dests, "To", ByTotalPrice, GroupPos)
        /\ TiesInInputOrder(charts.top_routes_commission, "Route", ByCommission, RoutePos)
        /\ TiesInInputOrder(charts.bank_df, "Payment Method", ByCommission, GroupPos)
        /\ TiesInInputOrder(charts.airport_commission, "Airport", ByCommission, GroupPos)
        /\ TiesInInputOrder(charts.airport_sales, "Airport", ByTotalPrice, GroupPos)
        /\ TiesInInputOrder(charts.airport_bookings, "Airport", ByBookings,
                            AirportFirstSeen)

\* C5: every top-N aggregation returns at most N rows in non-increasing order
\* of its metric, leaves out no group with a larger metric than a group it
\* keeps, and shows groups of equal metric in the order they had in the input
\* of the sort.
C5_TopNStable == C5_Ranked /\ C5_Ties

\* the columns each metric and chart is computed from
TicketedColumns == {"Date", "Ticket Numbers", "Total Price", "Commission"}

Needs ==
    [Total_Bookings |-> {"Date"},
     Total_Ticketed_Passengers |-> TicketedColumns \cup {"No Passengers"},
     Max_Ticket_Price |-> TicketedColumns,
     Total_Commission |-> TicketedColumns,
     Total_Sales |-> TicketedColumns,
     Avg_Ticket_Price |-> TicketedColumns,
     fig_type |-> TicketedColumns \cup {"Type"},
     top_dests |-> TicketedColumns \cup {"To"},
     top_routes_commission |-> TicketedColumns \cup {"From", "To", "No Passengers"},
     type_commission |-> TicketedColumns \cup {"Type"},
     range_counts |-> TicketedColumns,
     bank_df |-> TicketedColumns \cup {"Payment Method"},
     payment_counts |-> TicketedColumns \cup {"Payment Method"},
     airport_commission |-> TicketedColumns \cup {"Airport"},
     airport_sales |-> TicketedColumns \cup {"Airport"},
     airport_bookings |-> TicketedColumns \cup {"Airport"}]

\* C6: when the loaded table lacks one required column the run still reaches
\* its end, and exactly the metrics and charts computed from that column are
\* missing from the page.
C6_MissingColumnDegrades ==
    (source.ok /\ pc # "start" /\ source.cols # RequiredColumns) =>
        /\ pc = "shown"
        /\ fail = 0
        /\ \A o \in DOMAIN Needs : (Needs[o] \subseteq source.cols) <=> (o \in produced)

\* C7: when the fetch or the parse fails, load_data reports the error and
\* returns None, and the run ends in the else branch: no exception, nothing
\* normalised, filtered or aggregated, no metric, and the guidance is shown.
C7_LoadFailureHalts ==
    (~source.ok /\ pc # "start") =>
        /\ pc = "nodata"
        /\ fail = 0
        /\ cache = [filled |-> TRUE, value |-> None]
        /\ df = None
        /\ {"error", "warning", "info"} \subseteq messages
        /\ "exception" \notin messages
        /\ ~widgets
        /\ filtered_df = <<>> /\ ticketed_df = <<>>
        /\ produced = {}
        /\ metrics = NoMetrics
        /\ charts = NoCharts

C7_Witness == ~source.ok /\ pc = "nodata" /\ "info" \in messages

\* the bookkeeping of C8: the cells the normaliser is to null
WellFormedNumbers == {"4000", "-3", "2.7"}

IsMalformed(c) == c.k = "nan" \/ (c.k = "str" /\ c.s \notin WellFormedNumbers)

ParseableRows == SelectSeq(source.rows, LAMBDA r : r["Date"].k = "ts")

\* C8: the normaliser drops exactly the rows whose Date does not parse; every
\* row kept has its Date with the Year, Month (1..12) and Month_Name of that
\* Date; a malformed or null-sentinel Total Price or Commission cell becomes
\* null and such a No Passengers cell 0, without dropping the row or aborting.
C8_OnlyBadDatesDropped ==
    (source.ok /\ pc # "start") =>
        /\ fail = 0
        /\ Len(df.rows) = Len(ParseableRows)
        /\ \A i \in DOMAIN df.rows :
               LET raw == ParseableRows[i]
                   row == df.rows[i]
               IN  /\ row["Date"] = raw["Date"]
                   /\ row["Year"] = raw["Date"].y
                   /\ row["Month"] = raw["Date"].m
                   /\ row["Month"] \in 1..12
                   /\ row["Month_Name"] = MonthNames[raw["Date"].m]
                   /\ \A c \in {"Total Price", "Commission"} :
                          IsMalformed(raw[c]) => isna(row[c])
                   /\ IsMalformed(raw["No Passengers"]) => row["No Passengers"] = 0

HistogramAllZero ==
    /\ Len(charts.range_counts) = Len(labels)
    /\ \A b \in DOMAIN charts.range_counts :
           /\ charts.range_counts[b].Ticket_Count = 0
           /\ charts.range_counts[b].Total_Commission = Num(0)
           /\ charts.range_counts[b].Avg_Ticket_Price.k = "nan"

EmptyMetrics ==
    /\ metrics.Total_Ticketed_Passengers = FormatInt(0)
    /\ metrics.Total_Commission = FormatInt(0)
    /\ metrics.Total_Sales = FormatInt(0)
    /\ metrics.Max_Ticket_Price.k = "nan"
    /\ metrics.Avg_Ticket_Price.k = "nan"

\* C9 as stated: with no filtered or no ticketed row the run ends without an
\* exception, total bookings is 0, the sums are 0, max and average are shown as
\* undefined, and each grouped aggregation is empty.
C9_AllAggregationsEmpty ==
    Ran =>
        /\ filtered_df = <<>> => (pc = "shown" /\ metrics.Total_Bookings = FormatInt(0))
        /\ ticketed_df = <<>> =>
               /\ pc = "shown"
               /\ EmptyMetrics
               /\ \A c \in ChartNames : charts[c] = <<>>

\* C9 as amended: the same, but the price-range histogram keeps its nine bins,
\* each with count 0, commission 0 and an undefined average.
C9_EmptySubsets ==
    Ran =>
        /\ filtered_df = <<>> => (pc = "shown" /\ metrics.Total_Bookings = FormatInt(0))
        /\ ticketed_df = <<>> =>
               /\ pc = "shown"
               /\ EmptyMetrics
               /\ \A c \in ChartNames \ {"range_counts"} : charts[c] = <<>>
               /\ HistogramAllZero

\* a selected year and a selected month that no row has together
C9_Witness ==
    /\ pc = "shown"
    /\ df.rows # <<>>
    /\ selected_years # {} /\ selected_months # {}
    /\ filtered_df = <<>>
    /\ "range_counts" \in produced

\* C10: over the user's interactions the normalised base table stays as it is,
\* and the filtered view after an interaction is the filter of that table under
\* the selection of that interaction alone.
C10_BaseUnchanged ==
    [][(pc = "shown" /\ pc' = "shown") =>
           /\ df' = df
           /\ filtered_df' =
                  SelectSeq(df.rows,
                            LAMBDA r : InSelection(r, selected_years', selected_months'))]_vars

\* a view narrowed by the user's selection beside the whole base table
C10_Witness ==
    /\ pc = "shown"
    /\ Len(df.rows) = 2
    /\ Len(filtered_df) = 1
    /\ ticketed_df # <<>>
    /\ "Route" \in DOMAIN ticketed_df[1]
    /\ "Route" \notin DOMAIN df.rows[1]

=============================================================================
